---- MODULE Spec2Model ----
(***************************************************************************)
(* A model of the tRPC router src/server/api/routers/payment-management.ts *)
(* (paymentManagementRouter) and of the helper hasWebhook.                 *)
(*                                                                         *)
(* Every request is a call in one of NCalls slots, which keeps the request *)
(* and its outcome until the next one takes the slot.  A handler runs from *)
(* one `await` to the next in one step, so the steps of concurrent calls   *)
(* interleave exactly at the awaits of the source.  The payment provider   *)
(* (Lemon Squeezy) and the relational store (Prisma) are the shared state. *)
(***************************************************************************)
EXTENDS Integers, Sequences, FiniteSets, TLC

\* ---------------------------------------------------------------- bounds
\* Number of requests that can be in flight at the same time.
NCalls == 2
\* Number of requests started in one behaviour.
MaxCalls == 3
\* Number of spendCredits requests started in one behaviour of SpecUsage.
MaxSpends == 2
\* Number of days the clock runs through, and the days of a month.
MaxDay == 3
MonthLength == 2

Calls == 1..NCalls

\* ------------------------------------------------------------ JS values
\* `undefined` where a string is expected (an env variable that is not set).
Undefined == "undefined"
\* `null` / `undefined` where an object is expected.
Null == [null |-> TRUE]
NoError == ""

\* The session users: ctx.session.user with its id and role.
Users ==
  { [id |-> "u1", role |-> "SUPER_ADMIN"],
    [id |-> "u2", role |-> "USER"] }

VARIABLES
  env,          \* the environment: env.* and process.env.LEMONSQUEEZY_STORE_ID
  webhooks,     \* the provider's webhooks
  plan,         \* table Plan
  subscription, \* table LemonSqueezySubscription
  featureUsage, \* table FeatureUsage
  clock,        \* the current day, as new Date() sees it
  calls,        \* the requests in flight, one record per slot
  started,      \* number of requests started so far
  spent         \* history: the sum the completed spendCredits calls spent, per user and day

vars ==
  << env, webhooks, plan, subscription, featureUsage, clock,
     calls, started, spent >>

\* ------------------------------------------------------------- requests
IdleCall ==
  [ proc |-> "idle", pc |-> "idle", session |-> Null, error |-> NoError,
    issued |-> {}, local |-> Null, result |-> Null ]

\* A request enters its handler.
Enter(proc, s) == [IdleCall EXCEPT !.proc = proc, !.pc = "running", !.session = s]

\* throw new Error(msg): the request ends with that error, its locals go.
Throw(call, msg) == [call EXCEPT !.pc = "failed", !.error = msg, !.local = Null]

\* The handler returns v, its locals go.
Return(call, v) == [call EXCEPT !.pc = "done", !.result = v, !.local = Null]

\* The handler issues a provider or store operation and awaits it at `at`.
Await(call, op, at) == [call EXCEPT !.pc = at, !.issued = @ \cup {op}]

\* A rejected Promise.all leaves the other callbacks running: the request is
\* over when every callback has settled.
Settled(call) ==
  IF call.proc # "createPlansFromLemonSqueezyVariants" \/ call.local = Null
  THEN TRUE
  ELSE \A v \in DOMAIN call.local.task : call.local.task[v] \in {"returned", "rejected"}

\* The request slot c held, if any, is over.
Free(c) == calls[c].pc \in {"idle", "done", "failed"} /\ Settled(calls[c])

\* Slot c takes the next request: it is the first free slot.
CanStart(c) ==
  /\ Free(c)
  /\ \A c2 \in 1..(c - 1) : ~Free(c2)
  /\ started < MaxCalls

\* ------------------------------------------------------------- webhooks
WebhookUrl == "https://app/api/webhook"
StoreId == "s1"

\* Webhooks of the store that are not the one createLsWebhook registers: a
\* live-mode webhook with the configured URL and a test-mode one elsewhere.
OtherWebhooks ==
  { [id |-> 1, url |-> WebhookUrl, test_mode |-> FALSE, store_id |-> StoreId],
    [id |-> 2, url |-> "https://other/hook", test_mode |-> TRUE, store_id |-> StoreId] }

\* listWebhooks({filter: {storeId}}): an undefined filter value lists all.
listWebhooks(storeId, ok) ==
  [ ok |-> ok,
    data |-> IF ok
             THEN {wh \in webhooks : storeId = Undefined \/ wh.store_id = storeId}
             ELSE {} ]

\* Array.prototype.find: the first element (lowest id) that matches.
Find(S) == IF S = {} THEN Null ELSE CHOOSE x \in S : \A y \in S : x.id <= y.id

\* hasWebhook, up to its await of listWebhooks.  Its webhookUrl and the
\* webHookUrl of createLsWebhook are the same env value, kept once.
hasWebhook(call) ==
  IF env.LEMON_SQUEEZY_WEBHOOK_URL = Undefined
  THEN Throw(call, "Missing required WEBHOOK_URL env variable. Please, set it in your .env file.")
  ELSE [ Await(call, "listWebhooks", "listWebhooks") EXCEPT
           !.local = [ webHookUrl |-> env.LEMON_SQUEEZY_WEBHOOK_URL,
                       allWebhooks |-> Null ] ]

\* hasWebhook, from the response of listWebhooks on: allWebhooks.data?.data.find.
hasWebhookFind(allWebhooks) ==
  IF ~allWebhooks.ok
  THEN Null
  ELSE Find({wh \in allWebhooks.data :
               wh.url = env.LEMON_SQUEEZY_WEBHOOK_URL /\ wh.test_mode})

\* createLsWebhook without its check of the role.
createLsWebhookAnyRole(call) ==
  IF env.LEMON_SQUEEZY_WEBHOOK_URL = Undefined
  THEN Throw(call, "Missing required LEMON_SQUEEZY_WEBHOOK_URL env variable. Please, set it in your .env file.")
  ELSE hasWebhook(call)

\* createLsWebhook, up to its first await.
createLsWebhookEnter(call) ==
  IF call.session.role # "SUPER_ADMIN"
  THEN Throw(call, "Unauthorized access to the resource")
  ELSE IF env.LEMON_SQUEEZY_WEBHOOK_URL = Undefined
  THEN Throw(call, "Missing required LEMON_SQUEEZY_WEBHOOK_URL env variable. Please, set it in your .env file.")
  ELSE hasWebhook(call)

createLsWebhook(c) ==
  \E s \in Users :
    /\ CanStart(c)
    /\ calls' = [calls EXCEPT ![c] = createLsWebhookEnter(Enter("createLsWebhook", s))]
    /\ started' = started + 1
    /\ UNCHANGED << env, webhooks, plan, subscription, featureUsage, clock, spent >>

getWebhook(c) ==
  \E s \in Users :
    /\ CanStart(c)
    /\ calls' = [calls EXCEPT ![c] = hasWebhook(Enter("getWebhook", s))]
    /\ started' = started + 1
    /\ UNCHANGED << env, webhooks, plan, subscription, featureUsage, clock, spent >>

\* listWebhooks answers (with data, or with an error and no data) and the
\* caller of hasWebhook goes on to its next await or to its end.
hasWebhookReturn(c) ==
  \E ok \in BOOLEAN :
    LET allWebhooks == listWebhooks(env.LEMONSQUEEZY_STORE_ID, ok)
        call == [calls[c] EXCEPT !.local.allWebhooks = allWebhooks]
        webhook == hasWebhookFind(allWebhooks)
    IN /\ calls[c].pc = "listWebhooks"
       /\ calls' = [calls EXCEPT ![c] =
            IF call.proc = "getWebhook" THEN Return(call, webhook)
            ELSE IF webhook = Null THEN Await(call, "createWebhook", "createWebhook")
            ELSE Return(call, Null)]
       /\ UNCHANGED << env, webhooks, plan, subscription, featureUsage, clock, started, spent >>

\* The provider's createWebhook: it registers the webhook when the request is
\* well formed (a store and a secret) and the provider accepts it.
createWebhook(storeId, secret, url, ok) ==
  IF ok /\ storeId # Undefined /\ secret # Undefined
  THEN webhooks \cup
         { [ id |-> Cardinality(webhooks) + 1, url |-> url, test_mode |-> TRUE,
             store_id |-> storeId ] }
  ELSE webhooks

\* createWebhook answers; createLsWebhook ignores the answer and returns.
createWebhookReturn(c) ==
  \E ok \in BOOLEAN :
    LET call == calls[c]
    IN /\ call.pc = "createWebhook"
       /\ webhooks' = createWebhook(env.LEMON_SQUEEZY_STORE_ID,
                                    env.LEMON_SQUEEZY_WEBHOOK_SECRET,
                                    call.local.webHookUrl, ok)
       /\ calls' = [calls EXCEPT ![c] = Return(call, Null)]
       /\ UNCHANGED << env, plan, subscription, featureUsage, clock, started, spent >>

\* createCheckoutForVariant: a public procedure, the session may have no user.
createCheckoutForVariant(c) ==
  \E s \in Users \cup {Null}, variantId \in {"v1", "v2"} :
    LET call == Enter("createCheckoutForVariant", s)
    IN /\ CanStart(c)
       /\ calls' = [calls EXCEPT ![c] =
            IF env.LEMON_SQUEEZY_STORE_ID = Undefined
            THEN Throw(call, "Missing required LEMON_SQUEEZY_STORE_ID env variable. Please, set it in your .env file.")
            ELSE Return(Await(call, "createCheckout", "createCheckout"),
                        [ storeId |-> env.LEMON_SQUEEZY_STORE_ID, variantId |-> variantId,
                          email |-> IF s = Null THEN "undefined" ELSE s.id ])]
       /\ started' = started + 1
       /\ UNCHANGED << env, webhooks, plan, subscription, featureUsage, clock, spent >>

\* ---------------------------------------------------------------- plans
\* The provider's catalogue: variant.attributes.product_id is a number, the
\* ids are strings.
Variants ==
  { [id |-> "v1", product_id |-> 1, name |-> "Basic"],
    [id |-> "v2", product_id |-> 2, name |-> "Pro"] }

Products == { [id |-> "1", name |-> "Starter"], [id |-> "2", name |-> "Team"] }

VariantIds == {v.id : v \in Variants}

VariantById(id) == CHOOSE v \in Variants : v.id = id

\* Plan.lemonSqueezyVariantId is a unique key (it is the key of findUnique):
\* the store refuses a second row with the same value.
PlanUniqueViolation(variantId) == \E p \in plan : p.lemonSqueezyVariantId = variantId

\* ctx.db.plan.findUnique({where: {lemonSqueezyVariantId}})
planFindUnique(variantId) == Find({p \in plan : p.lemonSqueezyVariantId = variantId})

\* ctx.db.plan.create({data: {lemonSqueezyVariantId, name}}): the new row.
\* The id tells the rows of one variant apart: it numbers them.
planCreate(variant) ==
  [ id |-> Cardinality({p \in plan : p.lemonSqueezyVariantId = variant.id}) + 1,
    lemonSqueezyVariantId |-> variant.id, name |-> variant.name ]

\* createPlansFromLemonSqueezyVariants, up to its await of listVariants.
createPlansFromLemonSqueezyVariants(c) ==
  \E s \in Users :
    LET call == Enter("createPlansFromLemonSqueezyVariants", s)
    IN /\ CanStart(c)
       /\ calls' = [calls EXCEPT ![c] =
            IF s.role # "SUPER_ADMIN"
            THEN Throw(call, "Unauthorized access to the resource")
            ELSE Await(call, "listVariants", "listVariants")]
       /\ started' = started + 1
       /\ UNCHANGED << env, webhooks, plan, subscription, featureUsage, clock, spent >>

\* Promise.all settles: it rejects with the first rejection (the handler
\* throws, the callbacks still pending keep their state), and resolves with
\* the plans once every callback has returned one.
PromiseAll(call, task, plans) ==
  IF call.pc # "Promise.all" THEN call
  ELSE IF \E v \in DOMAIN task : task[v] = "rejected"
  THEN [call EXCEPT !.pc = "failed",
          !.error = "Unique constraint failed on the fields: (lemonSqueezyVariantId)"]
  ELSE IF \A v \in DOMAIN task : task[v] = "returned"
  THEN Return(call, plans)
  ELSE call

\* listVariants answers: without data the handler throws, with data every
\* callback of variants.map runs up to its await of findUnique.
listVariantsReturn(c) ==
  \E ok \in BOOLEAN :
    LET call == calls[c]
        listed == IF ok THEN VariantIds ELSE {}
    IN /\ call.proc = "createPlansFromLemonSqueezyVariants"
       /\ call.pc = "listVariants"
       /\ calls' = [calls EXCEPT ![c] =
            IF ~ok
            THEN Throw(call, "Failed to fetch variants from Lemon Squeezy.")
            ELSE [ Await(call, "plan.findUnique", "Promise.all") EXCEPT
                     !.local = [ task |-> [v \in listed |-> "findUnique"],
                                 plans |-> [v \in listed |-> Null] ] ]]
       /\ UNCHANGED << env, webhooks, plan, subscription, featureUsage, clock, started, spent >>

HasTask(c, v, at) ==
  /\ calls[c].proc = "createPlansFromLemonSqueezyVariants"
  /\ calls[c].local # Null
  /\ v \in DOMAIN calls[c].local.task
  /\ calls[c].local.task[v] = at

\* One callback's findUnique answers: it returns the existing plan, or goes
\* on to its await of create.
planFindUniqueReturn(c, v) ==
  LET call == calls[c]
      existingPlan == planFindUnique(v)
      task == [call.local.task EXCEPT ![v] =
                 IF existingPlan = Null THEN "create" ELSE "returned"]
      plans == [call.local.plans EXCEPT ![v] = existingPlan]
      next == [call EXCEPT !.local.task = task, !.local.plans = plans,
                 !.issued = IF existingPlan = Null THEN @ \cup {"plan.create"} ELSE @]
  IN /\ HasTask(c, v, "findUnique")
     /\ calls' = [calls EXCEPT ![c] = PromiseAll(next, task, plans)]
     /\ UNCHANGED << env, webhooks, plan, subscription, featureUsage, clock, started, spent >>

\* One callback's create answers: with the new row, or with the store's
\* rejection of a duplicate key.
planCreateReturn(c, v) ==
  LET call == calls[c]
      dup == PlanUniqueViolation(v)
      row == planCreate(VariantById(v))
      task == [call.local.task EXCEPT ![v] = IF dup THEN "rejected" ELSE "returned"]
      plans == [call.local.plans EXCEPT ![v] = IF dup THEN Null ELSE row]
      next == [call EXCEPT !.local.task = task, !.local.plans = plans]
  IN /\ HasTask(c, v, "create")
     /\ plan' = IF dup THEN plan ELSE plan \cup {row}
     /\ calls' = [calls EXCEPT ![c] = PromiseAll(next, task, plans)]
     /\ UNCHANGED << env, webhooks, subscription, featureUsage, clock, started, spent >>

\* String(n) of a non-negative integer: its decimal digits.
Digits == << "0", "1", "2", "3", "4", "5", "6", "7", "8", "9" >>

RECURSIVE String(_)
String(n) ==
  IF n < 10 THEN Digits[n + 1] ELSE String(n \div 10) \o Digits[(n % 10) + 1]

\* The variants of every product, not filtered by product_id.
productVariantsUnfiltered(product, planVariantIdsInDB) ==
  { [ id |-> v.id, product_id |-> v.product_id, name |-> v.name,
      hasCorrespondingPlanInDB |-> v.id \in planVariantIdsInDB ] : v \in Variants }

\* The variants getProductsFromLemonSqueezy puts under one product.
productVariants(product, planVariantIdsInDB) ==
  { [ id |-> v.id, product_id |-> v.product_id, name |-> v.name,
      hasCorrespondingPlanInDB |-> v.id \in planVariantIdsInDB ] :
    v \in {w \in Variants : String(w.product_id) = product.id} }

\* getProductsFromLemonSqueezy: two provider listings and one read of Plan;
\* products.data?.data and variants.data?.data are undefined on a listing
\* without data (ok, variantsOk = FALSE).
getProductsFromLemonSqueezy(c) ==
  \E s \in Users, okProducts \in BOOLEAN, okVariants \in BOOLEAN :
    LET call == [Enter("getProductsFromLemonSqueezy", s) EXCEPT
                   !.issued = {"listProducts", "listVariants", "plan.findMany"}]
        planVariantIdsInDB == {p.lemonSqueezyVariantId : p \in plan}
        productsWithVariants ==
          [ ok |-> okProducts,
            products |->
              IF ~okProducts THEN {}
              ELSE { [ id |-> product.id, name |-> product.name,
                       variantsOk |-> okVariants,
                       variants |-> IF okVariants
                                    THEN productVariants(product, planVariantIdsInDB)
                                    ELSE {} ] : product \in Products } ]
    IN /\ CanStart(c)
       /\ calls' = [calls EXCEPT ![c] = Return(call, productsWithVariants)]
       /\ started' = started + 1
       /\ UNCHANGED << env, webhooks, plan, subscription, featureUsage, clock, spent >>

\* -------------------------------------------------------- subscriptions
\* A column that holds SQL NULL.
DbNull == "null"

\* JS truthiness of an optional string.
Truthy(x) == x \notin {Undefined, DbNull, ""}

\* findFirst without orderBy: any row that matches, null when none does.
FindFirst(S) == IF S = {} THEN {Null} ELSE S

\* subscription?.variantId
variantIdOf(sub) == IF sub = Null THEN Undefined ELSE sub.variantId

\* The rows ctx.db.plan.findFirst({where: {lemonSqueezyVariantId: value}})
\* selects from: Prisma drops a filter whose value is undefined.
planWhereVariantId(value) ==
  IF value = Undefined THEN plan
  ELSE {p \in plan : p.lemonSqueezyVariantId = value}

getSubscriptionByUserId(c) ==
  \E s \in Users \cup {Null} :
    LET call == Enter("getSubscriptionByUserId", s)
    IN /\ CanStart(c)
       /\ started' = started + 1
       /\ UNCHANGED << env, webhooks, plan, subscription, featureUsage, clock, spent >>
       /\ IF s = Null
          THEN calls' = [calls EXCEPT ![c] = Throw(call, "User not found in session")]
          ELSE \E sub \in FindFirst({r \in subscription : r.userId = s.id}) :
                 \E p \in FindFirst(planWhereVariantId(variantIdOf(sub))) :
                   LET hasVariant == Truthy(variantIdOf(sub))
                       variant == IF hasVariant THEN [id |-> sub.variantId] ELSE Null
                       after == [call EXCEPT !.issued =
                                   {"lemonSqueezySubscription.findFirst", "plan.findFirst"}
                                   \cup (IF hasVariant THEN {"getVariant"} ELSE {})]
                   IN calls' = [calls EXCEPT ![c] =
                        Return(after, [subscription |-> sub, variant |-> variant, plan |-> p])]

SubscriptionTables ==
  { { [id |-> 1, userId |-> "u1", variantId |-> "v2"] },
    { [id |-> 1, userId |-> "u1", variantId |-> "v2"],
      [id |-> 2, userId |-> "u2", variantId |-> DbNull] } }

\* ---------------------------------------------------------------- usage
\* input.amount is z.number(): any sign.
Amounts == {-1, 2}

Days == 1..MaxDay

\* new Date() with setHours(0, 0, 0, 0): the current day.
Today == clock

\* setDate(1) and setHours(0, 0, 0, 0): the first day of the current month.
MonthStart(day) == day - ((day - 1) % MonthLength)

RECURSIVE Sum(_)
\* currentMonthUsage.reduce((acc, usage) => acc + usage.buttonClicks, 0)
Sum(rows) ==
  IF rows = {} THEN 0
  ELSE LET r == CHOOSE x \in rows : TRUE IN r.buttonClicks + Sum(rows \ {r})

\* The rows of FeatureUsage with the compound key userId_date.
UsageRows(userId, date) ==
  {r \in featureUsage : r.userId = userId /\ r.date = date}

\* FeatureUsage without the unique key.
UsageNoUniqueKey(userId, date) == FALSE

\* userId_date is a unique key: the store refuses a second row with it.
UsageUniqueViolation(userId, date) == UsageRows(userId, date) # {}

\* INSERT of the `create` branch of the upsert.  The id tells the rows of one
\* key apart: it numbers them.
usageCreate(userId, date, amount) ==
  featureUsage \cup
    { [ id |-> Cardinality(UsageRows(userId, date)) + 1, userId |-> userId,
        date |-> date, buttonClicks |-> amount ] }

\* buttonClicks: amount, a set in place of the increment.
IncrementAsSet(row, amount) == amount

\* buttonClicks: {increment: amount}: the store adds to the value it holds.
Increment(row, amount) == row.buttonClicks + amount

\* UPDATE of the `update` branch of the upsert.
usageUpdate(userId, date, amount) ==
  { IF r.userId = userId /\ r.date = date
    THEN [r EXCEPT !.buttonClicks = Increment(r, amount)]
    ELSE r : r \in featureUsage }

\* What a completed spendCredits call adds to the history.
Spend(userId, date, amount) == [spent EXCEPT ![<< userId, date >>] = @ + amount]

\* spendCredits, up to its await of the upsert inside $transaction.
spendCredits(c) ==
  \E s \in Users, amount \in Amounts :
    /\ CanStart(c)
    /\ calls' = [calls EXCEPT ![c] =
         [ Await(Enter("spendCredits", s), "featureUsage.upsert", "upsert") EXCEPT
             !.local = [today |-> Today, amount |-> amount, found |-> FALSE] ]]
    /\ started' = started + 1
    /\ UNCHANGED << env, webhooks, plan, subscription, featureUsage, clock, spent >>

\* The upsert as one statement of the database (INSERT ... ON CONFLICT DO
\* UPDATE); the transaction commits and the handler returns.
upsertNative(c) ==
  LET call == calls[c]
      userId == call.session.id
      date == call.local.today
      amount == call.local.amount
  IN /\ call.pc = "upsert"
     /\ featureUsage' =
          IF UsageRows(userId, date) = {}
          THEN usageCreate(userId, date, amount)
          ELSE usageUpdate(userId, date, amount)
     /\ spent' = Spend(userId, date, amount)
     /\ calls' = [calls EXCEPT ![c] = Return(call, Null)]
     /\ UNCHANGED << env, webhooks, plan, subscription, clock, started >>

\* The upsert as Prisma runs it when the database has no native upsert for
\* the query: first the read of the row with the key, of which it keeps
\* whether there is one.
upsertSelect(c) ==
  LET call == calls[c]
  IN /\ call.pc = "upsert"
     /\ calls' = [calls EXCEPT ![c] =
          [call EXCEPT !.pc = "upsertWrite",
                       !.local.found = UsageRows(call.session.id, call.local.today) # {}]]
     /\ UNCHANGED << env, webhooks, plan, subscription, featureUsage, clock, started, spent >>

\* ... then the UPDATE when the read found a row and the INSERT when not; an
\* INSERT of a key that exists by now fails, the transaction rolls back and
\* the handler throws.
upsertWrite(c) ==
  LET call == calls[c]
      userId == call.session.id
      date == call.local.today
      amount == call.local.amount
      found == call.local.found
      dup == ~found /\ UsageUniqueViolation(userId, date)
  IN /\ call.pc = "upsertWrite"
     /\ featureUsage' =
          IF dup THEN featureUsage
          ELSE IF ~found THEN usageCreate(userId, date, amount)
          ELSE usageUpdate(userId, date, amount)
     /\ spent' = IF dup THEN spent ELSE Spend(userId, date, amount)
     /\ calls' = [calls EXCEPT ![c] =
          IF dup
          THEN Throw(call, "Unique constraint failed on the fields: (userId,date)")
          ELSE Return(call, Null)]
     /\ UNCHANGED << env, webhooks, plan, subscription, clock, started >>

\* findFirst without the filter on userId.
todaysUsageRowsOfAnyone(userId, todayStart) ==
  {r \in featureUsage : r.date >= todayStart}

\* The rows getUsageForUser's findFirst selects from.
todaysUsageRows(userId, todayStart) ==
  {r \in featureUsage : r.userId = userId /\ r.date >= todayStart}

\* The rows getUsageForUser's findMany returns.
currentMonthUsage(userId, monthStart) ==
  {r \in featureUsage : r.userId = userId /\ r.date >= monthStart}

getUsageForUser(c) ==
  \E s \in Users :
    LET todayStart == Today
        monthStart == MonthStart(Today)
    IN \E todaysUsage \in FindFirst(todaysUsageRows(s.id, todayStart)) :
         LET totalButtonClicksThisMonth == Sum(currentMonthUsage(s.id, monthStart))
             totalButtonClicksToday ==
               IF todaysUsage = Null THEN 0 ELSE todaysUsage.buttonClicks
             call == [Enter("getUsageForUser", s) EXCEPT
                        !.issued = {"featureUsage.findFirst", "featureUsage.findMany"}]
         IN /\ CanStart(c)
            /\ calls' = [calls EXCEPT ![c] =
                 Return(call, [ totalButtonClicksToday |-> totalButtonClicksToday,
                                totalButtonClicksThisMonth |-> totalButtonClicksThisMonth ])]
            /\ started' = started + 1
            /\ UNCHANGED << env, webhooks, plan, subscription, featureUsage, clock, spent >>

\* Midnight: the next day begins.
Tick ==
  /\ clock < MaxDay
  /\ clock' = clock + 1
  /\ UNCHANGED << env, webhooks, plan, subscription, featureUsage, calls, started, spent >>

\* ------------------------------------------------------- specifications
EnvChoices ==
  [ LEMON_SQUEEZY_STORE_ID : {StoreId, Undefined},
    LEMON_SQUEEZY_WEBHOOK_URL : {WebhookUrl, Undefined},
    LEMON_SQUEEZY_WEBHOOK_SECRET : {"whsec", Undefined},
    LEMONSQUEEZY_STORE_ID : {StoreId, Undefined} ]

EnvSet ==
  [ LEMON_SQUEEZY_STORE_ID |-> StoreId, LEMON_SQUEEZY_WEBHOOK_URL |-> WebhookUrl,
    LEMON_SQUEEZY_WEBHOOK_SECRET |-> "whsec", LEMONSQUEEZY_STORE_ID |-> StoreId ]

PlanTables == { {}, {[id |-> 1, lemonSqueezyVariantId |-> "v1", name |-> "Legacy"]} }

NothingSpent == [k \in {u.id : u \in Users} \X Days |-> 0]

InitRequests ==
  /\ calls = [c \in Calls |-> IdleCall]
  /\ started = 0
  /\ clock = 1
  /\ featureUsage = {}
  /\ spent = NothingSpent

\* The admin procedures and the procedures around webhooks and checkouts,
\* under every environment.
Init ==
  /\ InitRequests
  /\ env \in EnvChoices
  /\ webhooks = OtherWebhooks
  /\ plan = {}
  /\ subscription = {}

Next ==
  \E c \in Calls :
    \/ createLsWebhook(c)
    \/ getWebhook(c)
    \/ hasWebhookReturn(c)
    \/ createWebhookReturn(c)
    \/ createCheckoutForVariant(c)
    \/ createPlansFromLemonSqueezyVariants(c)
    \/ listVariantsReturn(c)
    \/ \E v \in VariantIds : planFindUniqueReturn(c, v)
    \/ \E v \in VariantIds : planCreateReturn(c, v)

Spec == Init /\ [][Next]_vars

\* The admin-only procedures alone, under every environment.
NextAdmin ==
  \E c \in Calls :
    \/ createLsWebhook(c)
    \/ hasWebhookReturn(c)
    \/ createWebhookReturn(c)
    \/ createPlansFromLemonSqueezyVariants(c)
    \/ listVariantsReturn(c)
    \/ \E v \in VariantIds : planFindUniqueReturn(c, v)
    \/ \E v \in VariantIds : planCreateReturn(c, v)

SpecAdmin == Init /\ [][NextAdmin]_vars

\* The procedures over Plan and LemonSqueezySubscription.
InitPlans ==
  /\ InitRequests
  /\ env = EnvSet
  /\ webhooks = OtherWebhooks
  /\ plan \in PlanTables
  /\ subscription \in SubscriptionTables

NextPlans ==
  \E c \in Calls :
    \/ createPlansFromLemonSqueezyVariants(c)
    \/ listVariantsReturn(c)
    \/ \E v \in VariantIds : planFindUniqueReturn(c, v)
    \/ \E v \in VariantIds : planCreateReturn(c, v)
    \/ getProductsFromLemonSqueezy(c)
    \/ getSubscriptionByUserId(c)

SpecPlans == InitPlans /\ [][NextPlans]_vars

\* spendCredits and the clock: up to MaxSpends calls, the upsert either as
\* one statement of the database or as Prisma's read followed by a write.
InitUsage ==
  /\ InitRequests
  /\ env = EnvSet
  /\ webhooks = OtherWebhooks
  /\ plan = {}
  /\ subscription = {}

NextUsage ==
  \/ Tick
  \/ \E c \in Calls :
       \/ started < MaxSpends /\ spendCredits(c)
       \/ upsertNative(c)
       \/ upsertSelect(c)
       \/ upsertWrite(c)

SpecUsage == InitUsage /\ [][NextUsage]_vars

\* getUsageForUser over the tables that spendCredits fills, and the clock.
\* userId_date is the unique key of the upsert's where and its create holds
\* the same values, so that the database runs the upsert as one statement.
NextReads ==
  \/ Tick
  \/ \E c \in Calls :
       \/ spendCredits(c)
       \/ upsertNative(c)
       \/ getUsageForUser(c)

SpecReads == InitUsage /\ [][NextReads]_vars

\* ----------------------------------------------------------- properties
\* This step is the start of a request of procedure proc in slot c.
Starts(c, proc) ==
  /\ CanStart(c)
  /\ started' = started + 1
  /\ calls'[c].proc = proc

AdminProcs == {"createLsWebhook", "createPlansFromLemonSqueezyVariants"}

ProviderOps ==
  {"createCheckout", "listWebhooks", "createWebhook", "listVariants", "listProducts", "getVariant"}

\* The call is one of an admin-only procedure by a user who is no SUPER_ADMIN.
Unauthorized(call) ==
  IF call.proc \in AdminProcs THEN call.session.role # "SUPER_ADMIN" ELSE FALSE

\* C1: a call of createLsWebhook or createPlansFromLemonSqueezyVariants by a
\* user whose role is not SUPER_ADMIN ends in the error "Unauthorized access
\* to the resource", has issued no provider call and no operation on Plan,
\* and the step that makes the call leaves the webhooks and Plan unchanged.
C1_UnauthorizedRejected ==
  /\ [](\A c \in Calls :
          Unauthorized(calls[c]) =>
            /\ calls[c].pc = "failed"
            /\ calls[c].error = "Unauthorized access to the resource"
            /\ calls[c].issued = {})
  /\ [][\A c \in Calls :
          (\E proc \in AdminProcs : Starts(c, proc) /\ Unauthorized(calls'[c])) =>
            (webhooks' = webhooks /\ plan' = plan)]_vars

\* C1 witness: both admin procedures have rejected a plain user.
C1_Witness ==
  \E c1, c2 \in Calls :
    /\ calls[c1].proc = "createLsWebhook"
    /\ calls[c2].proc = "createPlansFromLemonSqueezyVariants"
    /\ Unauthorized(calls[c1]) /\ Unauthorized(calls[c2])
    /\ calls[c1].pc = "failed" /\ calls[c2].pc = "failed"
Missing(value) == value = Undefined

\* C2: a call of createCheckoutForVariant, createLsWebhook or getWebhook
\* never issues a provider call that it hands a missing configuration value
\* (the store id to createCheckout, listWebhooks and createWebhook, the
\* webhook URL, the webhook secret), and with such a value missing the call
\* ends in an error.
C2_MissingEnvRaisesFirst ==
  \A c \in Calls :
    LET call == calls[c]
        noStore == Missing(env.LEMON_SQUEEZY_STORE_ID)
        noFilter == Missing(env.LEMONSQUEEZY_STORE_ID)
        noUrl == Missing(env.LEMON_SQUEEZY_WEBHOOK_URL)
        noSecret == Missing(env.LEMON_SQUEEZY_WEBHOOK_SECRET)
    IN /\ call.proc = "createCheckoutForVariant" /\ noStore =>
            call.pc = "failed" /\ call.issued = {}
       /\ call.proc = "getWebhook" /\ (noUrl \/ noFilter) =>
            call.pc = "failed" /\ call.issued = {}
       /\ call.proc = "createLsWebhook" /\ (noUrl \/ noFilter) =>
            call.pc = "failed" /\ call.issued = {}
       /\ call.proc = "createLsWebhook" /\ (noStore \/ noSecret) =>
            "createWebhook" \notin call.issued

\* The test-mode webhooks registered for the configured URL.
Registered == {wh \in webhooks : wh.url = WebhookUrl /\ wh.test_mode}

\* C6: whatever createLsWebhook calls were made and however they interleaved,
\* the provider holds at most one test-mode webhook with the configured URL.
C6_AtMostOneWebhook == Cardinality(Registered) <= 1

\* listWebhooks has answered this call without data.
ListedNoData(call) ==
  IF call.proc \in {"createLsWebhook", "getWebhook"} /\ call.local # Null
  THEN call.local.allWebhooks # Null /\ ~call.local.allWebhooks.ok
  ELSE FALSE

\* C7: a listing without data makes the call throw and write nothing: after
\* listWebhooks without data the call has failed and issued no
\* createWebhook, and a call that failed on listVariants has touched no Plan.
C7_NoDataThrows ==
  \A c \in Calls :
    /\ ListedNoData(calls[c]) =>
         (calls[c].pc = "failed" /\ "createWebhook" \notin calls[c].issued)
    /\ calls[c].error = "Failed to fetch variants from Lemon Squeezy." =>
         (calls[c].pc = "failed" /\ calls[c].issued = {"listVariants"})

DuplicatePlan == "Unique constraint failed on the fields: (lemonSqueezyVariantId)"

\* C5: Plan holds at most one row per lemonSqueezyVariantId, a completed
\* createPlansFromLemonSqueezyVariants returns one plan per listed variant,
\* and no call fails on a duplicate create, however the find-then-create
\* steps of one call or of concurrent calls interleave.
C5_PlansCreatedOnce ==
  /\ \A p1, p2 \in plan :
       p1.lemonSqueezyVariantId = p2.lemonSqueezyVariantId => p1 = p2
  /\ \A c \in Calls :
       calls[c].proc = "createPlansFromLemonSqueezyVariants" =>
         /\ calls[c].error # DuplicatePlan
         /\ calls[c].pc = "done" =>
              \A v \in VariantIds :
                /\ calls[c].result[v] # Null
                /\ calls[c].result[v].lemonSqueezyVariantId = v

\* C9: getSubscriptionByUserId throws "User not found in session" without a
\* user; otherwise the subscription is the caller's, a plan that is not null
\* has the subscription's variantId, and without a subscription or without
\* its variantId no getVariant is called and variant and plan are null.
C9_ConsistentTriple ==
  \A c \in Calls :
    calls[c].proc = "getSubscriptionByUserId" =>
      IF calls[c].session = Null
      THEN calls[c].pc = "failed" /\ calls[c].error = "User not found in session"
      ELSE LET r == calls[c].result
               variantId == variantIdOf(r.subscription)
           IN /\ calls[c].pc = "done"
              /\ r.subscription # Null => r.subscription.userId = calls[c].session.id
              /\ r.plan # Null => r.plan.lemonSqueezyVariantId = variantId
              /\ variantId \in {Undefined, DbNull} =>
                   /\ "getVariant" \notin calls[c].issued
                   /\ r.variant = Null
                   /\ r.plan = Null

DuplicateUsage == "Unique constraint failed on the fields: (userId,date)"

\* C3: FeatureUsage holds at most one row per (user id, date), whatever
\* spendCredits calls were made and however they interleaved.
C3_OneRowPerUserAndDay ==
  \A r1, r2 \in featureUsage :
    (r1.userId = r2.userId /\ r1.date = r2.date) => r1 = r2

\* C3 witness: two spendCredits calls of one user and day ran concurrently
\* and found no row; one created it and the other was refused a second one.
C3_Witness ==
  \E c1, c2 \in Calls :
    /\ calls[c1].proc = "spendCredits" /\ calls[c2].proc = "spendCredits"
    /\ calls[c1].session = calls[c2].session
    /\ calls[c1].pc = "done" /\ calls[c2].pc = "failed"
    /\ calls[c2].error = DuplicateUsage
    /\ started = 2
    /\ Cardinality(featureUsage) = 1

\* C4: the buttonClicks of the row of (user, day) is the sum of the amounts
\* of the completed spendCredits calls of that user on that day, each counted
\* once; there is no row where nothing was spent.
C4_NoLostUpdate ==
  \A u \in Users, d \in Days :
    LET rows == {r \in featureUsage : r.userId = u.id /\ r.date = d}
    IN /\ Sum(rows) = spent[<< u.id, d >>]
       /\ \A r \in featureUsage : r.date \in Days

\* C4 witness: two calls of one user, both complete and no other made, have
\* left one row, which holds 4: the sum of their amounts, 2 and 2.
C4_Witness ==
  \E c1, c2 \in Calls :
    /\ c1 # c2
    /\ calls[c1].proc = "spendCredits" /\ calls[c2].proc = "spendCredits"
    /\ calls[c1].pc = "done" /\ calls[c2].pc = "done"
    /\ calls[c1].session = calls[c2].session
    /\ started = 2
    /\ \E r \in featureUsage :
         r.userId = calls[c1].session.id /\ r.buttonClicks = 4

\* C8: getUsageForUser returns, for the caller, the buttonClicks of the row
\* dated today (0 without one), which is what the caller spent today, and
\* the sum over the caller's rows dated from the first day of the month on;
\* today's total is at most the month's when no row of the month is negative
\* (none is when no amount was).
C8_UsageAggregates ==
  [][\A c \in Calls :
       Starts(c, "getUsageForUser") =>
         LET u == calls'[c].session.id
             r == calls'[c].result
             today == {x \in featureUsage : x.userId = u /\ x.date = clock}
             month == {x \in featureUsage : x.userId = u /\ x.date >= MonthStart(clock)}
         IN /\ calls'[c].pc = "done"
            /\ Cardinality(today) <= 1
            /\ r.totalButtonClicksToday = Sum(today)
            /\ r.totalButtonClicksToday = spent[<< u, clock >>]
            /\ r.totalButtonClicksThisMonth = Sum(month)
            /\ (\A x \in month : x.buttonClicks >= 0) =>
                 r.totalButtonClicksToday <= r.totalButtonClicksThisMonth
            /\ featureUsage' = featureUsage]_vars

\* C8 witness: a user who spent 2 on the first day of the month and 2 on the
\* second asks on the second: 2 today, 4 this month.
C8_Witness ==
  \E c \in Calls :
    /\ calls[c].proc = "getUsageForUser" /\ calls[c].pc = "done"
    /\ calls[c].result.totalButtonClicksToday = 2
    /\ calls[c].result.totalButtonClicksThisMonth = 4
    /\ clock = 2

\* product_id and the product id it is written as.
ProductIdStrings == { << 1, "1" >>, << 2, "2" >> }

\* C10: getProductsFromLemonSqueezy lists each variant under the product
\* with its product_id and under no other, flags it exactly when Plan has a
\* row with its id, flags every variant once createPlansFromLemonSqueezyVariants
\* has completed, and changes no Plan row.
C10_ProductsMirrorStore ==
  [][\A c \in Calls :
       Starts(c, "getProductsFromLemonSqueezy") =>
         LET r == calls'[c].result
             plansMade == \E c2 \in Calls :
                            /\ calls[c2].proc = "createPlansFromLemonSqueezyVariants"
                            /\ calls[c2].pc = "done"
         IN /\ plan' = plan
            /\ r.ok => r.products # {}
            /\ \A pr \in r.products :
                 pr.variantsOk =>
                   /\ \A v \in Variants :
                        (\E x \in pr.variants : x.id = v.id)
                          <=> << v.product_id, pr.id >> \in ProductIdStrings
                   /\ \A x \in pr.variants :
                        /\ x.hasCorrespondingPlanInDB
                             <=> \E p \in plan : p.lemonSqueezyVariantId = x.id
                        /\ plansMade => x.hasCorrespondingPlanInDB]_vars

\* C10 witness: after a completed createPlansFromLemonSqueezyVariants the
\* query has listed both products, each with its variant, all flagged.
C10_Witness ==
  \E c1, c2 \in Calls :
    /\ calls[c1].proc = "createPlansFromLemonSqueezyVariants" /\ calls[c1].pc = "done"
    /\ calls[c2].proc = "getProductsFromLemonSqueezy" /\ calls[c2].pc = "done"
    /\ calls[c2].result.ok
    /\ \A pr \in calls[c2].result.products :
         /\ pr.variantsOk
         /\ pr.variants # {}
         /\ \A x \in pr.variants : x.hasCorrespondingPlanInDB
    /\ Cardinality(plan) = 2
====
